---- MODULE Spec2Model ----
(***************************************************************************)
(* Model of hello-myo.cpp: the DataCollector fields written by the device  *)
(* callbacks, GestureRecorder::record, GestureListener::isGesture, the     *)
(* Gestures library and the menu loop of main.                             *)
(*                                                                         *)
(* An EulerAngle is the tuple <<roll, pitch, yaw>>.  A Gesture object is   *)
(* an entry of heap (its vector of EulerAngle); a Gesture* is an index     *)
(* into heap, 0 being the null pointer.                                    *)
(***************************************************************************)
EXTENDS Integers, Sequences, FiniteSets, TLC

(* ---------------- program constants ---------------- *)
TOLERANCE == 2

MAX_STRIKES == 2

\* the factor of the scale in onOrientationData()
BINS == 18

(* ---------------- bounds of the model ---------------- *)
\* longest gesture a recording may produce
MaxLen == 2

\* largest repetition count typed at the prompt
MaxReps == 1

\* longest sample stream of the replay specification
MaxTape == 4

\* steps of the angle grid between 0 and the end of an angle's range
Grid == 7

\* quantized axis values delivered by onOrientationData in the model:
\* 0/1 differ by one bin, 1/3 are tolerance-equal, 0/3 are not
RollVals == {0, 1, 3}

PitchVals == {0, 1}

YawVals == {0}

Samples == {<<r, p, y>> : r \in RollVals, p \in PitchVals, y \in YawVals}

\* the angles delivered in the whole-program specification
MainSamples == {<<0, 0, 0>>, <<3, 0, 0>>}

\* poses delivered by onPose; "rest" stands for every pose the program
\* does not test for
PoseEvents == {"rest", "doubleTap", "waveOut"}

\* the pose events one hub->run() delivers, in order: none, one, or two
NoEvent == <<>>

EventRuns == {NoEvent} \cup {<<e>> : e \in PoseEvents}
                       \cup {<<e, f>> : e \in PoseEvents, f \in PoseEvents}

\* onPose called for each event of a run: currentPose is the last one
PoseAfter(pose, evs) == IF evs = <<>> THEN pose ELSE evs[Len(evs)]

\* the event e is among those a run delivers
Delivers(evs, e) == \E i \in 1..Len(evs) : evs[i] = e

\* names typed at the save prompt, in std::string order; Junk stands for the
\* string an undefined keyAt() call may produce
NameOrder == <<"a", "b", "~">>

Names == {"a", "b"}

Junk == "~"

NullPtr == 0

(* ---------------- pure helpers ---------------- *)
\* the difference taken as it is
AbsNone(x) == x

\* std::abs
Abs(x) == IF x < 0 THEN -x ELSE x

\* EulerAngle(): the default member initializers
DefaultAngle == <<0, 0, 0>>

\* EulerAngle::equals
Equals(a, b) ==
    /\ Abs(a[1] - b[1]) <= TOLERANCE
    /\ Abs(a[2] - b[2]) <= TOLERANCE
    /\ Abs(a[3] - b[3]) <= TOLERANCE

\* Gesture::equals(euler, n): values->at(n) is the (n+1)-th element
GestureEqualsFirst(values, euler, n) == Equals(values[1], euler)

GestureEquals(values, euler, n) == Equals(values[n + 1], euler)

\* Gesture::getNumSteps
GetNumSteps(values) == Len(values)

\* first test of the debounce: the polled angle is the last emitted one
SameAngle(last, w) == last[2] = w[2] /\ last[1] = w[1] /\ last[3] = w[3]

\* second test of the debounce, without its minorChange conjunct
WithinOne(last, w) ==
    /\ Abs(last[2] - w[2]) <= 1
    /\ Abs(last[1] - w[1]) <= 1
    /\ Abs(last[3] - w[3]) <= 1

\* a debounce whose flag is set by an emitted angle
DebounceArmsFlag(last, minor, w) ==
    IF SameAngle(last, w) THEN [emit |-> FALSE, minorChange |-> FALSE]
    ELSE IF WithinOne(last, w) /\ minor THEN [emit |-> FALSE, minorChange |-> TRUE]
    ELSE [emit |-> TRUE, minorChange |-> TRUE]

\* a debounce that lets every polled angle through
DebounceNone(last, minor, w) == [emit |-> TRUE, minorChange |-> FALSE]

\* the debounce of record() and isGesture(): whether the polled angle w is
\* emitted and the new value of minorChange
Debounce(last, minor, w) ==
    IF SameAngle(last, w) THEN [emit |-> FALSE, minorChange |-> FALSE]
    ELSE IF WithinOne(last, w) /\ minor THEN [emit |-> FALSE, minorChange |-> TRUE]
    ELSE [emit |-> TRUE, minorChange |-> FALSE]

\* record(): what an iteration that passed the stop test leaves in the vector
RecordedAll(values, emit, w) == Append(values, w)

Recorded(values, emit, w) == IF emit THEN Append(values, w) ELSE values

\* record(): the test that ends the loop
StopObserved(pose) == pose = "doubleTap"

\* a test that breaks out of the loop on the pose that ends record()
AbortOnStop(pose) == pose = "doubleTap"

\* isGesture(): the test that breaks out of the loop
AbortObserved(pose) == pose = "waveOut"

\* isGesture(): the if / else if / else on the emitted angle
MatchUpdateLateReset(correct, strikes, eq) ==
    IF eq THEN [correct |-> correct + 1, strikes |-> strikes]
    ELSE IF strikes > MAX_STRIKES THEN [correct |-> 0, strikes |-> 0]
    ELSE [correct |-> correct, strikes |-> strikes + 1]

MatchUpdateDouble(correct, strikes, eq) ==
    IF eq THEN [correct |-> correct + 2, strikes |-> strikes]
    ELSE IF strikes >= MAX_STRIKES THEN [correct |-> 0, strikes |-> 0]
    ELSE [correct |-> correct, strikes |-> strikes + 1]

MatchUpdateEarlyReset(correct, strikes, eq) ==
    IF eq THEN [correct |-> correct + 1, strikes |-> strikes]
    ELSE IF strikes + 1 >= MAX_STRIKES THEN [correct |-> 0, strikes |-> 0]
    ELSE [correct |-> correct, strikes |-> strikes + 1]

MatchUpdate(correct, strikes, eq) ==
    IF eq THEN [correct |-> correct + 1, strikes |-> strikes]
    ELSE IF strikes >= MAX_STRIKES THEN [correct |-> 0, strikes |-> 0]
    ELSE [correct |-> correct, strikes |-> strikes + 1]

\* GestureRecorder::reset: a new Gesture object with a new vector
ResetInPlace(h, lg) == [heap |-> [h EXCEPT ![lg] = <<>>], lastGesture |-> lg]

Reset(h, lg) == [heap |-> Append(h, <<>>), lastGesture |-> Len(h) + 1]

\* Gestures::getSize
GetSize(g) == Cardinality(DOMAIN g)

\* position of a key in std::string order
Rank(k) == CHOOSE i \in 1..Len(NameOrder) : NameOrder[i] = k

\* gest.begin()->first
FirstKey(g) == CHOOSE k \in DOMAIN g : \A j \in DOMAIN g : Rank(k) <= Rank(j)

\* Gestures::keyAt(n) returns only when the map is not empty and n is 0 (i is
\* never incremented); every other call flows off the end of the function
KeyAtReturns(g, n) == DOMAIN g # {} /\ n = 0

\* the strings keyAt(n) may yield: the first key, or, undefined, any string
KeyAt(g, n) == IF KeyAtReturns(g, n) THEN {FirstKey(g)} ELSE Names \cup {Junk}

\* main: the test of the re-prompt loop after the gesture selection
InputRejected(in, size) == in > size + 1

\* main: the test of the repetition loop
RepsContinue(r, total) == r <= total

\* the debounce folded over a stream: the emitted angles
RECURSIVE DebounceAll(_, _, _)
DebounceAll(s, last, minor) ==
    IF s = <<>> THEN <<>>
    ELSE LET d == Debounce(last, minor, Head(s))
         IN  IF d.emit
             THEN <<Head(s)>> \o DebounceAll(Tail(s), Head(s), d.minorChange)
             ELSE DebounceAll(Tail(s), last, d.minorChange)

IsPrefix(s, t) == Len(s) <= Len(t) /\ SubSeq(t, 1, Len(s)) = s

\* w differs from v by exactly 1 on exactly one axis
OneBinApart(v, w) ==
    \E i \in 1..3 : Abs(v[i] - w[i]) = 1 /\ \A j \in (1..3) \ {i} : v[j] = w[j]

(* ---------------- state ---------------- *)
(* ---------------- onOrientationData: radians to the scale ---------------- *)
\* static_cast<int>: truncation toward zero
Trunc(n, d) == IF n >= 0 THEN n \div d ELSE -((-n) \div d)

\* An angle is k * pi / Grid for roll and yaw, k * (pi / 2) / Grid for pitch,
\* k in -Grid..Grid, so that k = -Grid and k = Grid are the ends of the range
\* of atan2 and of asin.  (roll + pi) / (2 pi) * 18 and
\* (pitch + pi / 2) / pi * 18 are both (k + Grid) * 18 / (2 * Grid).
Rescale(k) == Trunc((k + Grid) * BINS, 2 * Grid)

GridAngles == (0 - Grid)..Grid

VARIABLES
    pc,           \* where main is
    currentPose,  \* DataCollector::currentPose
    angle_w,      \* DataCollector::roll_w, pitch_w, yaw_w
    heap,         \* the Gesture objects allocated so far
    lastGesture,  \* GestureRecorder::lastGesture
    rec,          \* locals of record()
    lis,          \* argument and locals of isGesture()
    ret,          \* value last returned by isGesture()
    gest,         \* Gestures::gest
    input,        \* main: input
    totalReps,    \* main: totalReps
    reps,         \* main: reps
    obs,          \* history of the running session (not program state)
    calls,        \* history: isGesture() calls since the last menu choice 2
    tape,         \* replay: the sample stream, doubleTap coming with its last sample
    pos,          \* replay: samples of the tape consumed by the session
    arg,          \* single calls: the arguments of the function called
    res           \* single calls: what the call returned

progVars == <<pc, currentPose, angle_w, heap, lastGesture, rec, lis, ret, gest,
              input, totalReps, reps, obs, calls>>

callVars == <<arg, res>>

tapeVars == <<tape, pos, arg, res>>

vars == <<pc, currentPose, angle_w, heap, lastGesture, rec, lis, ret, gest,
          input, totalReps, reps, obs, calls, tape, pos, arg, res>>

(* ---------------- history of a session ---------------- *)
NoJit == [w |-> <<>>, e |-> FALSE]

\* evDelivered: an event that ends this kind of session was delivered during it
\* pumped:      hub->run() has returned at least once during the session
\* abortAtStart: waveOut was the current pose when the session started
\* outcome:     "running", "stopped" (record), "completed" or "aborted"
\* emitted:     the debounce has emitted an angle during the session
\* jit:         the previous polled angle was one bin apart from the last
\*              emitted angle w; e: that previous angle was emitted
\* jitEmits:    the polled angle closed a stream [w, one bin apart, w]:
\*              "emitted" if either of the last two was emitted
\* pending:     the last hub->run() of the session delivered an event that
\*              ends this kind of session
\* faultRun:    consecutive emitted angles that failed the comparison, the
\*              first of them met with strikes = 0 and correct = runStart
\* faults:      emitted angles that failed the comparison since the session
\*              started or since correct was last reset
\* consec:      emitted angles that failed the comparison since the last one
\*              that passed it, counted up to MAX_STRIKES
NewObs(abort) ==
    [evDelivered |-> FALSE, pumped |-> FALSE, abortAtStart |-> abort,
     outcome |-> "running", emitted |-> FALSE, pending |-> FALSE, jit |-> NoJit,
     jitEmits |-> "none", faultRun |-> 0, runStart |-> 0, faults |-> 0,
     consec |-> 0]

ObsDebounce(o, last, w, emit) ==
    [o EXCEPT
       !.pumped = TRUE,
       !.emitted = @ \/ emit,
       !.jit = IF o.emitted /\ OneBinApart(last, w)
               THEN [w |-> last, e |-> emit] ELSE NoJit,
       !.jitEmits = IF o.jit # NoJit /\ w = o.jit.w
                    THEN (IF o.jit.e \/ emit THEN "emitted" ELSE "suppressed")
                    ELSE "none"]

ObsMatch(o, correct, strikes, eq, u) ==
    IF eq THEN [o EXCEPT !.faultRun = 0, !.runStart = 0, !.consec = 0]
    ELSE [o EXCEPT
            !.consec = IF @ < MAX_STRIKES THEN @ + 1 ELSE @,
            !.faultRun = IF strikes = 0 THEN 1
                         ELSE IF o.faultRun \in {1, 2} THEN o.faultRun + 1 ELSE 0,
            !.runStart = IF strikes = 0 THEN correct
                         ELSE IF o.faultRun \in {1, 2} THEN o.runStart ELSE 0,
            !.faults = IF u.correct < correct \/ u.strikes < strikes THEN 0 ELSE @ + 1]

(* ---------------- initial state ---------------- *)
\* the locals of record() and of isGesture() outside a call
NoRec == [lastAngle |-> DefaultAngle, minorChange |-> FALSE]

NoLis == [gesture |-> NullPtr, lastAngle |-> DefaultAngle, correct |-> 0,
          numSteps |-> 0, strikes |-> 0, minorChange |-> FALSE]

\* main up to its loop: the collector, the recorder with its first Gesture,
\* the empty library
InitProg ==
    /\ pc = "menu"
    /\ currentPose = "unknown"
    /\ angle_w = DefaultAngle
    /\ heap = << <<>> >>
    /\ lastGesture = 1
    /\ rec = NoRec
    /\ lis = NoLis
    /\ ret = "none"
    /\ gest = [k \in {} |-> NullPtr]
    /\ input = 0
    /\ totalReps = 0
    /\ reps = 0
    /\ obs = NewObs(FALSE)
    /\ calls = 0

\* no single call is under way
NoCall == arg = <<>> /\ res = <<>>

Init ==
    /\ InitProg
    /\ tape = <<>>
    /\ pos = 0
    /\ NoCall

(* ---------------- main: menu choice 1, record() ---------------- *)
\* inputNum == 1: record() starts with reset() and its two locals
StartRecord ==
    /\ pc = "menu"
    /\ LET r == Reset(heap, lastGesture)
       IN  /\ heap' = r.heap
           /\ lastGesture' = r.lastGesture
    /\ rec' = NoRec
    /\ obs' = NewObs(FALSE)
    /\ pc' = "record"
    /\ UNCHANGED <<currentPose, angle_w, lis, ret, gest, input, totalReps, reps, calls>>

\* one iteration of the loop of record(): hub->run() leaves the angle w and,
\* after the pose events evs, the last of them as the pose in the collector
RecordIter(w, evs) ==
    /\ pc = "record"
    /\ LET pose == PoseAfter(currentPose, evs)
           d == Debounce(rec.lastAngle, rec.minorChange, w)
       IN  /\ currentPose' = pose
           /\ angle_w' = w
           /\ IF StopObserved(pose)
              THEN /\ pc' = "save"
                   /\ rec' = NoRec
                   /\ obs' = [NewObs(FALSE) EXCEPT !.pumped = TRUE,
                                                   !.evDelivered = Delivers(evs, "doubleTap"),
                                                   !.outcome = "stopped"]
                   /\ UNCHANGED heap
              ELSE /\ pc' = "record"
                   /\ heap' = [heap EXCEPT ![lastGesture] = Recorded(@, d.emit, w)]
                   /\ rec' = [lastAngle |-> IF d.emit THEN w ELSE rec.lastAngle,
                              minorChange |-> d.minorChange]
                   /\ obs' = [ObsDebounce(obs, rec.lastAngle, w, d.emit)
                               EXCEPT !.pending = Delivers(evs, "doubleTap")]
    /\ UNCHANGED <<lastGesture, lis, ret, gest, input, totalReps, reps, calls>>

\* the save prompt: an invalid character re-prompts, Y stores the pointer
SaveAnswer(saveChar, name) ==
    /\ pc = "save"
    /\ IF saveChar \in {"Y", "y"}
       THEN /\ gest' = [k \in DOMAIN gest \cup {name} |->
                          IF k = name THEN lastGesture ELSE gest[k]]
            /\ pc' = "menu"
            /\ obs' = NewObs(FALSE)
       ELSE IF saveChar \in {"N", "n"}
       THEN /\ pc' = "menu"
            /\ obs' = NewObs(FALSE)
            /\ UNCHANGED gest
       ELSE UNCHANGED <<pc, gest, obs>>
    /\ UNCHANGED <<currentPose, angle_w, heap, lastGesture, rec, lis, ret,
                   input, totalReps, reps, calls>>

\* inputNum is neither 1 nor 2
MenuInvalid ==
    /\ pc = "menu"
    /\ UNCHANGED progVars

(* ---------------- main: menu choice 2, isGesture() ---------------- *)
\* inputNum == 2: the locals and the listing loop; keyAt(i) with i >= 1 is
\* undefined, the listing then prints some string or the program stops
StartPerform ==
    /\ pc = "menu"
    /\ input' = 0
    /\ totalReps' = 0
    /\ reps' = 0
    /\ calls' = 0
    /\ \/ pc' = "select"
       \/ GetSize(gest) >= 2 /\ pc' = "crash"
    /\ UNCHANGED <<currentPose, angle_w, heap, lastGesture, rec, lis, ret, gest, obs>>

\* cin >> input and the re-prompt loop
Select(in) ==
    /\ pc = "select"
    /\ IF InputRejected(in, GetSize(gest))
       THEN UNCHANGED <<pc, input>>
       ELSE input' = in /\ pc' = "askReps"
    /\ UNCHANGED <<currentPose, angle_w, heap, lastGesture, rec, lis, ret, gest,
                   totalReps, reps, obs, calls>>

\* cin >> totalReps
AskReps(n) ==
    /\ pc = "askReps"
    /\ totalReps' = n
    /\ pc' = "repLoop"
    /\ UNCHANGED <<currentPose, angle_w, heap, lastGesture, rec, lis, ret, gest,
                   input, reps, obs, calls>>

\* the loop test holds: gest[keyAt(input - 1)] (operator[] inserts a null
\* pointer under a missing key) and the entry of isGesture() up to its loop;
\* getNumSteps() through a null pointer stops the program
RepCall(k) ==
    /\ pc = "repLoop"
    /\ RepsContinue(reps, totalReps)
    /\ k \in KeyAt(gest, input - 1)
    /\ gest' = [j \in DOMAIN gest \cup {k} |-> IF j \in DOMAIN gest THEN gest[j] ELSE NullPtr]
    /\ calls' = calls + 1
    /\ ret' = "none"
    /\ IF gest'[k] = NullPtr
       THEN /\ pc' = "crash"
            /\ lis' = NoLis
            /\ obs' = NewObs(FALSE)
       ELSE /\ pc' = "isGesture"
            /\ lis' = [gesture |-> gest'[k], lastAngle |-> DefaultAngle, correct |-> 0,
                       numSteps |-> GetNumSteps(heap[gest'[k]]), strikes |-> 0,
                       minorChange |-> FALSE]
            /\ obs' = NewObs(AbortObserved(currentPose))
    /\ UNCHANGED <<currentPose, angle_w, heap, lastGesture, rec, input, totalReps, reps>>

\* keyAt() flowed off its end and the program stops on the string it yields
RepCallUndefined ==
    /\ pc = "repLoop"
    /\ RepsContinue(reps, totalReps)
    /\ ~KeyAtReturns(gest, input - 1)
    /\ pc' = "crash"
    /\ lis' = NoLis
    /\ obs' = NewObs(FALSE)
    /\ ret' = "none"
    /\ UNCHANGED <<currentPose, angle_w, heap, lastGesture, rec, gest,
                   input, totalReps, reps, calls>>

\* the loop test fails: back to the menu, the locals of the branch are gone
RepExit ==
    /\ pc = "repLoop"
    /\ ~RepsContinue(reps, totalReps)
    /\ pc' = "menu"
    /\ input' = 0
    /\ totalReps' = 0
    /\ reps' = 0
    /\ calls' = 0
    /\ ret' = "none"
    /\ obs' = NewObs(FALSE)
    /\ UNCHANGED <<currentPose, angle_w, heap, lastGesture, rec, lis, gest>>

\* one iteration of the loop of isGesture() that reaches hub->run()
ListenIter(w, evs) ==
    /\ pc = "isGesture"
    /\ lis.correct < lis.numSteps
    /\ ~AbortObserved(currentPose)
    /\ LET pose == PoseAfter(currentPose, evs)
           d == Debounce(lis.lastAngle, lis.minorChange, w)
           eq == GestureEquals(heap[lis.gesture], w, lis.correct)
           u == MatchUpdate(lis.correct, lis.strikes, eq)
           o == [ObsDebounce(obs, lis.lastAngle, w, d.emit)
                   EXCEPT !.evDelivered = @ \/ Delivers(evs, "waveOut"),
                          !.pending = Delivers(evs, "waveOut")]
       IN  /\ currentPose' = pose
           /\ angle_w' = w
           /\ IF d.emit
              THEN /\ lis' = [lis EXCEPT !.lastAngle = w, !.minorChange = d.minorChange,
                                         !.correct = u.correct, !.strikes = u.strikes]
                   /\ obs' = ObsMatch(o, lis.correct, lis.strikes, eq, u)
              ELSE /\ lis' = [lis EXCEPT !.minorChange = d.minorChange]
                   /\ obs' = o
    /\ UNCHANGED <<pc, heap, lastGesture, rec, ret, gest, input, totalReps, reps, calls>>

\* the loop of isGesture() ends, by its test or by the break; return true; reps++
ListenReturn ==
    /\ pc = "isGesture"
    /\ ~(lis.correct < lis.numSteps) \/ AbortObserved(currentPose)
    /\ obs' = [NewObs(obs.abortAtStart) EXCEPT
                 !.outcome = IF lis.correct < lis.numSteps THEN "aborted" ELSE "completed",
                 !.evDelivered = obs.evDelivered,
                 !.pumped = obs.pumped]
    /\ lis' = NoLis
    /\ ret' = "true"
    /\ reps' = reps + 1
    /\ pc' = "repLoop"
    /\ UNCHANGED <<currentPose, angle_w, heap, lastGesture, rec, gest,
                   input, totalReps, calls>>

(* ---------------- the program with a live device ---------------- *)
SelInputs == -1..3

\* runs of at most one pose event
PumpEvents == {NoEvent} \cup {<<e>> : e \in PoseEvents}

\* the recordings of a run are bounded by the names to save them under
Record1 ==
    /\ Len(heap) <= Cardinality(Names)
    /\ StartRecord
    /\ UNCHANGED tapeVars

Record ==
    /\ \E w \in MainSamples, evs \in EventRuns :
          /\ Len(heap[lastGesture]) < MaxLen \/ w = rec.lastAngle
                \/ StopObserved(PoseAfter(currentPose, evs))
          /\ RecordIter(w, evs)
    /\ UNCHANGED tapeVars

Save == (\E c \in {"Y", "N", "x"}, name \in Names : SaveAnswer(c, name)) /\ UNCHANGED tapeVars

Invalid == MenuInvalid /\ UNCHANGED tapeVars

Perform == StartPerform /\ UNCHANGED tapeVars

Choose == (\E in \in SelInputs : Select(in)) /\ UNCHANGED tapeVars

Reps == (\E n \in -1..MaxReps : AskReps(n)) /\ UNCHANGED tapeVars

Call == (\E k \in Names \cup {Junk} : RepCall(k)) /\ UNCHANGED tapeVars

CallUndefined == RepCallUndefined /\ UNCHANGED tapeVars

Exit == RepExit /\ UNCHANGED tapeVars

Listen == (\E w \in MainSamples, evs \in EventRuns : ListenIter(w, evs)) /\ UNCHANGED tapeVars

Return == ListenReturn /\ UNCHANGED tapeVars

Next ==
    \/ Record1
    \/ Record
    \/ Save
    \/ Invalid
    \/ Perform
    \/ Choose
    \/ Reps
    \/ Call
    \/ CallUndefined
    \/ Exit
    \/ Listen
    \/ Return

Spec == Init /\ [][Next]_vars

(* ---------------- record, then perform the same stream ---------------- *)
\* The device delivers the angles of tape, one per hub->run(), and doubleTap
\* with the last of them; the recording is saved and performed once while the
\* device delivers the same angles again and no pose event.
Tapes == UNION {[1..n -> Samples] : n \in 1..MaxTape}

InitReplay ==
    /\ InitProg
    /\ tape \in Tapes
    /\ pos = 0
    /\ NoCall

ReplayStart ==
    /\ Len(heap) = 1
    /\ StartRecord
    /\ UNCHANGED tapeVars

ReplayRecord ==
    /\ pos < Len(tape)
    /\ RecordIter(tape[pos + 1], IF pos + 1 = Len(tape) THEN <<"doubleTap">> ELSE NoEvent)
    /\ pos' = pos + 1
    /\ UNCHANGED <<tape, callVars>>

ReplaySave ==
    /\ SaveAnswer("Y", "a")
    /\ pos' = 0
    /\ UNCHANGED <<tape, callVars>>

ReplayPerform ==
    /\ DOMAIN gest # {}
    /\ StartPerform
    /\ pos' = 0
    /\ UNCHANGED <<tape, callVars>>

ReplayChoose == Select(1) /\ UNCHANGED tapeVars

ReplayReps == AskReps(0) /\ UNCHANGED tapeVars

ReplayCall == RepCall("a") /\ UNCHANGED tapeVars

ReplayListen ==
    /\ pos < Len(tape) - 1
    /\ ListenIter(tape[pos + 1], NoEvent)
    /\ pos' = pos + 1
    /\ UNCHANGED <<tape, callVars>>

ReplayReturn == ListenReturn /\ UNCHANGED tapeVars

ReplayExit == RepExit /\ UNCHANGED tapeVars

NextReplay ==
    \/ ReplayStart
    \/ ReplayRecord
    \/ ReplaySave
    \/ ReplayPerform
    \/ ReplayChoose
    \/ ReplayReps
    \/ ReplayCall
    \/ ReplayListen
    \/ ReplayReturn
    \/ ReplayExit

SpecReplay == InitReplay /\ [][NextReplay]_vars

(* ---------------- performing a saved gesture ---------------- *)
\* what record() can leave in a gesture of at most MaxLen angles
ShortTapes == UNION {[1..n -> Samples] : n \in 0..MaxLen}

RecordableGestures == {DebounceAll(t, DefaultAngle, FALSE) : t \in ShortTapes}

\* the menu after one recording was saved under "a": doubleTap ended it
InitMatch ==
    /\ pc = "menu"
    /\ currentPose = "doubleTap"
    /\ angle_w = DefaultAngle
    /\ \E g \in RecordableGestures : heap = << <<>>, g >>
    /\ lastGesture = 2
    /\ rec = NoRec
    /\ lis = NoLis
    /\ ret = "none"
    /\ gest = [k \in {"a"} |-> 2]
    /\ input = 0
    /\ totalReps = 0
    /\ reps = 0
    /\ obs = NewObs(FALSE)
    /\ calls = 0
    /\ tape = <<>>
    /\ pos = 0
    /\ NoCall

MatchPerform == StartPerform /\ UNCHANGED tapeVars

MatchChoose == Select(1) /\ UNCHANGED tapeVars

MatchReps == (\E n \in {0, 1} : AskReps(n)) /\ UNCHANGED tapeVars

MatchCall == RepCall("a") /\ UNCHANGED tapeVars

MatchListen == (\E w \in Samples, evs \in PumpEvents : ListenIter(w, evs)) /\ UNCHANGED tapeVars

MatchReturn == ListenReturn /\ UNCHANGED tapeVars

MatchExit == RepExit /\ UNCHANGED tapeVars

NextMatch ==
    \/ MatchPerform
    \/ MatchChoose
    \/ MatchReps
    \/ MatchCall
    \/ MatchListen
    \/ MatchReturn
    \/ MatchExit

SpecMatch == InitMatch /\ [][NextMatch]_vars

(* ---------------- one orientation event ---------------- *)
\* the device reports an orientation whose three angles are arg
InitQuant ==
    /\ InitProg
    /\ tape = <<>>
    /\ pos = 0
    /\ arg \in GridAngles \X GridAngles \X GridAngles
    /\ res = <<>>

\* onOrientationData(): roll_w, pitch_w, yaw_w
OnOrientationData ==
    /\ angle_w' = <<Rescale(arg[1]), Rescale(arg[2]), Rescale(arg[3])>>
    /\ res' = <<"stored">>
    /\ UNCHANGED <<pc, currentPose, heap, lastGesture, rec, lis, ret, gest,
                   input, totalReps, reps, obs, calls, tape, pos, arg>>

NextQuant == OnOrientationData

SpecQuant == InitQuant /\ [][NextQuant]_vars

(* ---------------- one comparison of two angles ---------------- *)
\* angles on the scale: every roll, some pitches and yaws
ScaleAngles == (0..(BINS - 1)) \X {0, 2, 3} \X {0, 3}

\* the two angles a and b of arg are about to be compared
InitEquals ==
    /\ InitProg
    /\ tape = <<>>
    /\ pos = 0
    /\ arg \in ScaleAngles \X ScaleAngles
    /\ res = <<>>

\* a.equals(b) and b.equals(a)
CallEquals ==
    /\ res' = <<Equals(arg[1], arg[2]), Equals(arg[2], arg[1])>>
    /\ UNCHANGED <<progVars, tape, pos, arg>>

NextEquals == CallEquals

SpecEquals == InitEquals /\ [][NextEquals]_vars

(* ---------------- performing a saved gesture, the loop kept running ---------------- *)
\* what record() can leave of at most MaxLen angles of the live device
LiveGestures ==
    {DebounceAll(t, DefaultAngle, FALSE) :
        t \in UNION {[1..n -> MainSamples] : n \in 0..MaxLen}}

InitMatchFair == InitMatch /\ heap[2] \in LiveGestures

\* the loop of isGesture() keeps running: no iteration is put off for ever
SpecMatchFair ==
    InitMatchFair /\ [][NextMatch]_vars /\ WF_vars(MatchListen \/ MatchReturn)

(* ---------------- properties ---------------- *)
\* the gesture isGesture() is walking
Walked == heap[lis.gesture]

\* an iteration of isGesture() in which the debounce emitted an angle
Emitted == pc = "isGesture" /\ pc' = "isGesture" /\ lis'.lastAngle # lis.lastAngle

\* C1: once the debounce has emitted w, the stream [w', w] with w' one bin
\* away from w on one axis yields no emission: neither w' nor w is emitted.
C1_SingleJitterSuppressed == obs.jitEmits # "emitted"

\* the angles of the tape before the one doubleTap comes with
TapeBeforeStop == SubSeq(tape, 1, Len(tape) - 1)

\* the emissions of the debounce on the first n angles of the tape
EmittedOf(n) == DebounceAll(SubSeq(tape, 1, n), DefaultAngle, FALSE)

\* C2: performing the stream a gesture was recorded from: after every sample
\* progress is the number of angles recorded up to that sample, no strike and
\* no reset occurs, and the session completes on the sample that gave the
\* last recorded angle (at once for the empty gesture).
C2_RecordThenMatch ==
    pc = "isGesture" =>
        /\ Walked = EmittedOf(Len(tape) - 1)
        /\ lis.correct = Len(EmittedOf(pos))
        /\ lis.strikes = 0
        /\ obs.faults = 0
        /\ pos = Len(tape) - 1 => lis.correct = lis.numSteps
        /\ (lis.correct = lis.numSteps /\ pos > 0) =>
               Len(EmittedOf(pos - 1)) = lis.numSteps - 1

C2_Witness ==
    /\ pc = "isGesture"
    /\ lis.numSteps = 2
    /\ lis.correct = 2
    /\ pos < Len(tape) - 1
    /\ ~Equals(Walked[1], Walked[2])

\* the selection is one for which keyAt(input - 1) returns
DefinedLookup == KeyAtReturns(gest, input - 1)

\* what the caller of isGesture() gets from a session that completed
CompletedValue == "true"

\* C3: a session that starts with waveOut as the current pose ends Aborted,
\* not Completed, and its result differs from that of a completed session.
C3_AbortPrecedence ==
    (obs.outcome \in {"completed", "aborted"} /\ obs.abortAtStart /\ DefinedLookup) =>
        /\ obs.outcome = "aborted"
        /\ ret # CompletedValue

\* C4: three consecutive emitted angles that fail the comparison, the first
\* met with strikes = 0 and progress p: progress stays p and strikes is 1 then
\* 2 after the first two, the third sets both to 0 whatever it is, and
\* progress only ever grows by one, on an angle tolerance-equal to the
\* waypoint at the current progress.
C4_RunInv ==
    pc = "isGesture" =>
        /\ obs.faultRun = 1 => (lis.strikes = 1 /\ lis.correct = obs.runStart)
        /\ obs.faultRun = 2 => (lis.strikes = 2 /\ lis.correct = obs.runStart)
        /\ obs.faultRun = 3 => (lis.strikes = 0 /\ lis.correct = 0)

C4_Step ==
    (pc = "isGesture" /\ pc' = "isGesture") =>
        \/ lis'.correct = lis.correct
        \/ lis'.correct = 0
        \/ /\ lis'.correct = lis.correct + 1
           /\ Emitted
           /\ GestureEquals(Walked, lis'.lastAngle, lis.correct)

C4_MatcherRestart == [](C4_RunInv) /\ [][C4_Step]_vars

C4_Witness ==
    /\ pc = "isGesture"
    /\ obs.faultRun = 3
    /\ obs.runStart > 0
    /\ GestureEquals(Walked, lis.lastAngle, 0)
    /\ lis.correct = 0

\* C5: while at most MAX_STRIKES emitted angles have failed the comparison
\* since the session started or progress was last reset, a failing angle adds
\* one strike and leaves progress, a tolerance-equal angle adds one to
\* progress, and the session ends Completed once progress is the length.
C5_Step ==
    /\ (Emitted /\ obs.faults < MAX_STRIKES) =>
          IF GestureEquals(Walked, lis'.lastAngle, lis.correct)
          THEN lis'.correct = lis.correct + 1 /\ lis'.strikes = lis.strikes
          ELSE lis'.correct = lis.correct /\ lis'.strikes = lis.strikes + 1
    /\ (pc = "isGesture" /\ pc' = "isGesture" /\ ~Emitted) =>
          (lis'.correct = lis.correct /\ lis'.strikes = lis.strikes)
    /\ (pc = "isGesture" /\ lis.correct = lis.numSteps) =>
          (pc' = "repLoop" /\ obs'.outcome = "completed")

C6_RecordedVerbatim ==
    /\ pc = "record" => heap[lastGesture] = EmittedOf(pos)
    /\ pc = "save" => heap[lastGesture] = DebounceAll(TapeBeforeStop, DefaultAngle, FALSE)

C6_Witness ==
    /\ pc = "save"
    /\ Len(heap[lastGesture]) = 2
    /\ Len(tape) = 4
    /\ tape[4] # tape[3]
    /\ tape[2] = tape[1]

\* the Gesture objects the library points to
Saved == {gest[k] : k \in DOMAIN gest}

\* C7: a gesture only ever grows at its end, and only while the record()
\* call that created it runs: a gesture that is in the library or whose
\* recording has ended is changed by no step.
C7_Step ==
    /\ Len(heap') >= Len(heap)
    /\ \A i \in 1..Len(heap) :
          /\ IsPrefix(heap[i], heap'[i])
          /\ heap'[i] # heap[i] =>
                (pc = "record" /\ pc' = "record" /\ i = lastGesture /\ i \notin Saved)

C7_AppendOnlyThenFrozen == [][C7_Step]_vars

C7_Witness ==
    /\ pc = "record"
    /\ heap[lastGesture] # <<>>
    /\ \E k \in DOMAIN gest : gest[k] # lastGesture /\ heap[gest[k]] # <<>>
                              /\ heap[gest[k]] # heap[lastGesture]

\* C8: reps is incremented only after a session that ended Completed.
C8_AbortNotCounted ==
    [][(reps' = reps + 1 /\ DefinedLookup) => obs'.outcome = "completed"]_vars

\* C9: when the repetition loop hands control back to the menu, isGesture()
\* has been called exactly totalReps times (totalReps >= 0).
C9_ExactlyNCalls ==
    [][(pc = "repLoop" /\ pc' = "menu" /\ totalReps >= 0 /\ DefinedLookup)
          => calls = totalReps]_vars

\* C10: a session ended by doubleTap or by waveOut had that event delivered
\* while it was running.
C10_EventsNotRetained ==
    obs.outcome \in {"stopped", "aborted"} => obs.evDelivered

\* C11: a doubleTap delivered by a hub->run() of record() ends record() in
\* that iteration, and a waveOut delivered by a hub->run() of isGesture()
\* ends isGesture() before its next hub->run(), whatever else the run delivers.
C11_BoundedReaction ==
    /\ pc = "record" => ~obs.pending
    /\ (pc = "isGesture" /\ obs.pending) =>
          (AbortObserved(currentPose) \/ ~(lis.correct < lis.numSteps))

\* C12: isGesture() ends exactly when, at the top of an iteration, correct
\* has reached the number of steps or waveOut is the pose: it ends at no
\* other point, its only step from such a point is to end, and while its
\* loop keeps running a waveOut that is the pose makes it end.
C12_EndStep ==
    /\ (pc = "isGesture" /\ pc' # "isGesture") =>
          (lis.correct = lis.numSteps \/ currentPose = "waveOut")
    /\ (pc = "isGesture" /\ (lis.correct = lis.numSteps \/ currentPose = "waveOut")) =>
          pc' # "isGesture"

C12_MatcherTermination ==
    /\ [][C12_EndStep]_vars
    /\ (pc = "isGesture" /\ currentPose = "waveOut") ~> (pc # "isGesture")

\* a session that ran and was ended by waveOut, short of its last step
C12_Witness ==
    /\ pc = "repLoop"
    /\ obs.outcome = "aborted"
    /\ obs.pumped
    /\ currentPose = "waveOut"

\* C13: whatever angles in the closed ranges the device reports, ends
\* included, onOrientationData() stores three values in 0..BINS-1.
C13_QuantizationRange ==
    res = <<"stored">> => \A i \in 1..3 : angle_w[i] \in 0..(BINS - 1)

\* the name saved i-th (from 0): Gesture objects are allocated in the order
\* of the recordings, and a run saves each name at most once
InsertedAt(g, i) ==
    CHOOSE k \in DOMAIN g : Cardinality({j \in DOMAIN g : g[j] < g[k]}) = i

\* C14: with n names saved, keyAt(i) returns for every 0 <= i < n the name
\* saved i-th, and a session started for menu entry i + 1 performs the
\* gesture saved under that name.
C14_MenuListing ==
    pc # "crash" =>
       /\ \A i \in 0..(GetSize(gest) - 1) :
             KeyAtReturns(gest, i) /\ KeyAt(gest, i) = {InsertedAt(gest, i)}
       /\ (pc = "isGesture" /\ input \in 1..GetSize(gest)) =>
             lis.gesture = gest[InsertedAt(gest, input - 1)]

\* C15: a selection outside 1..n, n the number of saved gestures, never
\* gets past the prompt, so no repetition loop and no isGesture() runs for
\* it, and the library never holds an entry that a lookup put there.
C15_InvalidSelectionRejected ==
    /\ pc \in {"askReps", "repLoop", "isGesture"} => input \in 1..GetSize(gest)
    /\ \A k \in DOMAIN gest : gest[k] # NullPtr

\* C16: while the device has reported one and the same angle w to record()
\* since its start, the gesture holds w once, or nothing when w is the
\* angle (0,0,0) that lastAngle starts with.
C16_StaticInput ==
    (pc = "record" /\ pos >= 1 /\ \A i \in 1..pos : tape[i] = tape[1]) =>
       heap[lastGesture] = IF tape[1] = DefaultAngle THEN <<>> ELSE <<tape[1]>>

\* three polls of one angle other than (0,0,0)
C16_Witness ==
    /\ pc = "record"
    /\ pos >= 3
    /\ \A i \in 1..pos : tape[i] = tape[1]
    /\ tape[1] # DefaultAngle
    /\ Len(heap[lastGesture]) = 1

\* C17: for all angles a and b on the scale, a.equals(b) and b.equals(a)
\* return the same value.
C17_EqualsSymmetric == res # <<>> => res[1] = res[2]

\* two different angles, the first below the second, that equals() accepts
C17_Witness ==
    /\ res = <<TRUE, TRUE>>
    /\ arg[1][1] < arg[2][1]
    /\ arg[1][2] > arg[2][2]

\* C18: isGesture() sets correct back to 0 only on an emitted angle that
\* fails the comparison right after at least MAX_STRIKES emitted angles in a
\* row that failed it; failures with a passing angle between them never add
\* up to a reset.
C18_Step ==
    (pc = "isGesture" /\ pc' = "isGesture" /\ lis'.strikes < lis.strikes) =>
       obs.consec >= MAX_STRIKES

C18_ConsecutiveFaults == [][C18_Step]_vars

\* C19: minorChange is false throughout record() and isGesture(), and a
\* polled angle is emitted (appended by record(), compared by isGesture())
\* exactly when it differs from the last emitted angle, however little.
C19_Step ==
    /\ (pc = "record" /\ pc' = "record") =>
          /\ rec'.lastAngle = angle_w'
          /\ heap'[lastGesture] = IF angle_w' # rec.lastAngle
                                  THEN Append(heap[lastGesture], angle_w')
                                  ELSE heap[lastGesture]
    /\ (pc = "isGesture" /\ pc' = "isGesture") =>
          /\ lis'.lastAngle = angle_w'
          /\ (angle_w' = lis.lastAngle) <=>
                (lis'.correct = lis.correct /\ lis'.strikes = lis.strikes)

C19_FlagNeverSet ==
    /\ [](rec.minorChange = FALSE /\ lis.minorChange = FALSE)
    /\ [][C19_Step]_vars

\* record() has appended an angle one bin apart from the one before it
C19_Witness ==
    /\ pc = "record"
    /\ Len(heap[lastGesture]) >= 2
    /\ OneBinApart(heap[lastGesture][1], heap[lastGesture][2])

\* C20: throughout isGesture(), correct is between 0 and the length of the
\* gesture and strikes between 0 and MAX_STRIKES, and every emitted angle is
\* compared at an index below the length of the vector, so values->at() is
\* never out of range; for the empty gesture nothing is compared.
C20_Inv ==
    pc = "isGesture" =>
       /\ lis.numSteps = Len(heap[lis.gesture])
       /\ lis.correct \in 0..lis.numSteps
       /\ lis.strikes \in 0..MAX_STRIKES

C20_Step ==
    (pc = "isGesture" /\ pc' = "isGesture") =>
       /\ lis'.lastAngle # lis.lastAngle => lis.correct < Len(heap[lis.gesture])
       /\ Len(heap[lis.gesture]) > 0

C20_MatcherBounds == [](C20_Inv) /\ [][C20_Step]_vars

\* the last index of the vector is the next to be compared, strikes used up
C20_Witness ==
    /\ pc = "isGesture"
    /\ lis.numSteps >= 2
    /\ lis.correct = lis.numSteps - 1
    /\ lis.strikes = MAX_STRIKES
    /\ obs.emitted

====
